---- MODULE Spec2Model ----
(***************************************************************************)
(* A model of AlbumClubWrapped (src/wrapped.py): the loader __init__, the  *)
(* eight category aggregators, generate_wrapped_stats and the __main__     *)
(* block that serialises the statistics document.                          *)
(*                                                                         *)
(* Data representation                                                     *)
(*   - A text cell that the code splits, strips or parses (Month, Genre,   *)
(*     the composite date string) is a sequence of tokens: a word, ",",    *)
(*     " ", "-", "." or one digit. The missing cell is NaNText.            *)
(*   - A text cell the code only compares (select_member, album_artist,    *)
(*     album_name) is one TLA+ string; the missing cell is NaN.            *)
(*   - A numeric cell is a record [k, v]: k = "num" with the value v,      *)
(*     k = "nan" for a missing cell, k = "text" for text that is no number.*)
(*   - A float result of a division (mean, median, average) is an exact    *)
(*     fraction <<numerator, denominator>> in lowest terms.                *)
(*   - A Python dict whose iteration order the code uses is a sequence of  *)
(*     <<key, value>> pairs in insertion order; a dict used as a mapping   *)
(*     only is a TLA+ function.                                            *)
(***************************************************************************)
EXTENDS Integers, Sequences, FiniteSets, TLC

VARIABLES csv, pc, df, err, ran, stats, ret, supLog, jsonFile, summaryFile

vars == <<csv, pc, df, err, ran, stats, ret, supLog, jsonFile, summaryFile>>

(***************************************************************************)
(* Bounds of the model.                                                    *)
(***************************************************************************)
\* rows of an input file
MaxRows == 2
\* rows of an input file whose header lacks or renames a column
MaxRowsSchema == 1
\* rows of an input file whose aggregators are called one by one
MaxRowsCalls == 2

(***************************************************************************)
(* Program constants.                                                      *)
(***************************************************************************)
current_year == 2025
TopN == 10

(***************************************************************************)
(* Generic helpers on sequences.                                           *)
(***************************************************************************)
Range(s) == {s[i] : i \in 1..Len(s)}

RECURSIVE SumSeq(_)
SumSeq(s) == IF s = <<>> THEN 0 ELSE Head(s) + SumSeq(Tail(s))

RECURSIVE Flatten(_)
Flatten(ss) == IF ss = <<>> THEN <<>> ELSE Head(ss) \o Flatten(Tail(ss))

\* the elements of s, in order, at the positions where keep is TRUE
\* (boolean indexing, a filtering loop)
RECURSIVE SelectFrom(_, _, _)
SelectFrom(s, keep, i) ==
  IF i > Len(s) THEN <<>>
  ELSE (IF keep[i] THEN <<s[i]>> ELSE <<>>) \o SelectFrom(s, keep, i + 1)

Select(s, keep) == SelectFrom(s, keep, 1)

\* the positions where keep is TRUE, in order
Positions(keep) == Select([i \in 1..Len(keep) |-> i], keep)

\* the distinct elements of s in order of first appearance
\* (pandas Series.unique, the key order of a dict or Counter)
Unique(s) == Select(s, [i \in 1..Len(s) |-> \A j \in 1..(i - 1) : s[j] # s[i]])

CountOf(s, x) == Cardinality({i \in 1..Len(s) : s[i] = x})

\* the positions of keys in ascending order of the keys, equal keys in
\* their order (a stable sort; keys are integers)
RECURSIVE InsertByKey(_, _, _)
InsertByKey(sorted, i, keys) ==
  IF sorted = <<>> THEN <<i>>
  ELSE IF keys[i] < keys[Head(sorted)] THEN <<i>> \o sorted
  ELSE <<Head(sorted)>> \o InsertByKey(Tail(sorted), i, keys)

RECURSIVE SortedPositions(_, _)
SortedPositions(keys, n) ==
  IF n = 0 THEN <<>> ELSE InsertByKey(SortedPositions(keys, n - 1), n, keys)

\* sorted(s, key=...): s in ascending order of its keys, stable
SortBy(s, keys) ==
  LET order == SortedPositions(keys, Len(s))
  IN [k \in 1..Len(s) |-> s[order[k]]]

\* max(s, key=...): the first element of s with the greatest key
FirstMaxBy(s, keys) ==
  s[CHOOSE i \in 1..Len(s) :
      /\ \A j \in 1..Len(s) : keys[j] <= keys[i]
      /\ \A j \in 1..(i - 1) : keys[j] < keys[i]]

SeqsUpTo(S, n) == UNION {[1..k -> S] : k \in 0..n}

(***************************************************************************)
(* Exact fractions for float results.                                      *)
(***************************************************************************)
RECURSIVE GCD(_, _)
GCD(a, b) == IF b = 0 THEN a ELSE GCD(b, a % b)

Abs(x) == IF x < 0 THEN 0 - x ELSE x

Frac(n, d) == LET g == GCD(Abs(n), d) IN <<n \div g, d \div g>>

FracLess(a, b) == a[1] * b[2] < b[1] * a[2]

\* numpy.mean of a non-empty list of integers
Mean(xs) == Frac(SumSeq(xs), Len(xs))

\* numpy.median of a non-empty list of integers
Median(xs) ==
  LET s == SortBy(xs, xs)
      n == Len(s)
  IN IF n % 2 = 1 THEN Frac(s[(n + 1) \div 2], 1)
     ELSE Frac(s[n \div 2] + s[n \div 2 + 1], 2)

(***************************************************************************)
(* Cells.                                                                  *)
(***************************************************************************)
NaN == "NaN"
NaNText == <<"NaN">>
NaNNum == [k |-> "nan", v |-> 0]
Num(n) == [k |-> "num", v |-> n]
BadNum == [k |-> "text", v |-> 0]

\* pandas.notna, by the type of the cell
notna(x) == x # NaN
notnaText(t) == t # NaNText
notnaNum(c) == c.k = "num"

\* str.strip() on a text: leading and trailing " " tokens removed
RECURSIVE LStrip(_)
LStrip(t) == IF t # <<>> /\ Head(t) = " " THEN LStrip(Tail(t)) ELSE t

RECURSIVE RStrip(_)
RStrip(t) == IF t # <<>> /\ t[Len(t)] = " " THEN RStrip(SubSeq(t, 1, Len(t) - 1)) ELSE t

Strip(t) == RStrip(LStrip(t))

\* str.split(','): the pieces between "," tokens, at least one piece
RECURSIVE SplitComma(_, _)
SplitComma(t, piece) ==
  IF t = <<>> THEN <<piece>>
  ELSE IF Head(t) = "," THEN <<piece>> \o SplitComma(Tail(t), <<>>)
  ELSE SplitComma(Tail(t), Append(piece, Head(t)))

\* [g.strip() for g in str(genres).split(',')]
GenreTags(genres) ==
  LET pieces == SplitComma(genres, <<>>)
  IN [i \in 1..Len(pieces) |-> Strip(pieces[i])]

\* pandas.to_numeric(column, errors='coerce') on one cell
ToNumeric(cell) == IF cell.k = "num" THEN cell ELSE NaNNum

(***************************************************************************)
(* The input file: a header (a set of column names) and rows.  A row maps  *)
(* each column name of the header to a cell.                               *)
(***************************************************************************)
Members == {"Sam", "Dana"}

AllColumns == {"Month", "Year", "album_name", "album_artist",
               "album_release_date", "select_member", "Genre"}

DefaultRow ==
  [Month |-> <<"March">>, Year |-> Num(2024), album_name |-> "X",
   album_artist |-> "A", album_release_date |-> NaNNum,
   select_member |-> "Sam", Genre |-> NaNText]

Jazz == <<"Jazz">>
JazzRock == <<"Jazz", ",", "Rock">>
ManyGenres ==
  <<"Ambient", ",", "Blues", ",", "Country", ",", "Disco", ",", "Emo", ",",
    "Folk", ",", "Grunge", ",", "House", ",", "Indie", ",", "Jazz", ",", "Kraut">>

\* rows that differ in selector and genres
GenreRows ==
  {[DefaultRow EXCEPT !.select_member = m, !.Genre = g] :
     m \in Members \cup {NaN}, g \in {Jazz, JazzRock, NaNText}}
  \cup {[DefaultRow EXCEPT !.Genre = g] :
          g \in {<<"Rock", ",">>, <<" ">>, <<"Rock", ",", " ", "Rock">>}}
  \cup {[DefaultRow EXCEPT !.select_member = "Dana", !.Genre = ManyGenres]}

\* rows that differ in selector, release year and album
YearRows ==
  {[DefaultRow EXCEPT !.select_member = m, !.album_release_date = y] :
     m \in Members \cup {NaN}, y \in {Num(1975), Num(2001), NaNNum}}
  \cup {[DefaultRow EXCEPT !.album_release_date = y] :
          y \in {Num(1977), Num(950), BadNum}}
  \cup {[DefaultRow EXCEPT !.album_release_date = Num(1975),
                           !.album_name = "Y", !.album_artist = "B"]}

\* rows that differ in selector, month and year of the meeting
DateRows ==
  {[DefaultRow EXCEPT !.select_member = m, !.Month = mo, !.Year = y] :
     m \in Members, mo \in {<<"March">>, <<"April">>},
     y \in {Num(2024), Num(2025), NaNNum}}
  \cup {[DefaultRow EXCEPT !.Month = mo] :
          mo \in {<<"March", " ">>, <<"Smarch">>, NaNText}}
  \cup {[DefaultRow EXCEPT !.Year = BadNum],
        [DefaultRow EXCEPT !.select_member = NaN]}

\* the three records of the scenario of the specification
ScenarioRows ==
  {[Month |-> <<"March">>, Year |-> Num(2024), album_name |-> "X",
    album_artist |-> "A", album_release_date |-> Num(1975),
    select_member |-> "Sam", Genre |-> Jazz],
   [Month |-> <<"March">>, Year |-> Num(2024), album_name |-> "Y",
    album_artist |-> "B", album_release_date |-> Num(2001),
    select_member |-> "Sam", Genre |-> JazzRock],
   [Month |-> <<"April">>, Year |-> Num(2024), album_name |-> "X",
    album_artist |-> "A", album_release_date |-> Num(1999),
    select_member |-> "Dana", Genre |-> <<"Rock">>]}

RowFamilies == {GenreRows, YearRows, DateRows, ScenarioRows}

\* the scenario of the specification, its records in their order
Scenario ==
  <<[Month |-> <<"March">>, Year |-> Num(2024), album_name |-> "X",
     album_artist |-> "A", album_release_date |-> Num(1975),
     select_member |-> "Sam", Genre |-> Jazz],
    [Month |-> <<"March">>, Year |-> Num(2024), album_name |-> "Y",
     album_artist |-> "B", album_release_date |-> Num(2001),
     select_member |-> "Sam", Genre |-> JazzRock],
    [Month |-> <<"April">>, Year |-> Num(2024), album_name |-> "X",
     album_artist |-> "A", album_release_date |-> Num(1999),
     select_member |-> "Dana", Genre |-> <<"Rock">>]>>

\* a meeting with four records of two selectors
FourInMarch ==
  <<DefaultRow, [DefaultRow EXCEPT !.select_member = "Dana"],
    DefaultRow, [DefaultRow EXCEPT !.select_member = "Dana"]>>

\* whole datasets, beside the ones built from the row families
FixedDatasets == {Scenario, FourInMarch}

\* rows for the runs that call the aggregators one by one: meetings out of
\* chronological order, members that tie, a missing selector
CallRows ==
  {[DefaultRow EXCEPT !.select_member = "Dana", !.Month = <<"April">>, !.Year = Num(2025)],
   [DefaultRow EXCEPT !.Genre = Jazz, !.album_release_date = Num(1975)],
   [DefaultRow EXCEPT !.select_member = "Dana", !.Month = <<"April">>, !.Genre = JazzRock,
                      !.album_release_date = Num(2001), !.album_artist = "B"],
   [DefaultRow EXCEPT !.select_member = NaN, !.Genre = Jazz, !.Year = NaNNum],
   DefaultRow}

\* the headers: all columns, one column absent, the alternate genre
\* spelling, a padded column name
Headers ==
  {AllColumns}
  \cup {AllColumns \ {c} : c \in AllColumns}
  \cup {(AllColumns \ {"Genre"}) \cup {"Genera"},
        (AllColumns \ {"Month"}) \cup {"Month "}}

\* the header's name of a column of a full row
CellOf(row, col) ==
  IF col = "Genera" THEN row.Genre
  ELSE IF col = "Month " THEN row.Month
  ELSE row[col]

FileOf(header, fullRows) ==
  [columns |-> header,
   rows |-> [i \in 1..Len(fullRows) |->
               [c \in header |-> CellOf(fullRows[i], c)]]]

SchemaFiles(nSchema) ==
  {FileOf(h, rows) : h \in Headers \ {AllColumns},
                     rows \in SeqsUpTo(ScenarioRows \cup {DefaultRow}, nSchema)}

\* the input files of a run of __main__
InputFiles(n, nSchema) ==
  {FileOf(AllColumns, rows) : rows \in UNION {SeqsUpTo(F, n) : F \in RowFamilies}}
  \cup {FileOf(AllColumns, rows) : rows \in FixedDatasets}
  \cup SchemaFiles(nSchema)

\* the input files of the runs that call the aggregators one by one
InputFilesCalls(n, nSchema) ==
  {FileOf(AllColumns, rows) : rows \in SeqsUpTo(CallRows, n)}
  \cup SchemaFiles(nSchema)

(***************************************************************************)
(* __init__: the loader.                                                   *)
(***************************************************************************)
\* Index.str.strip() on one column name
StripName(c) == IF c = "Month " THEN "Month" ELSE c

\* the dtype pandas gives a column of cells: a column with rows and no
\* string in it is a float column
IsStringColumn(rows, col) ==
  rows = <<>> \/ \E i \in 1..Len(rows) : notnaText(rows[i][col])

\* the first statement of __init__ that raises, "none" if none does
LoadError(file) ==
  LET cols == {StripName(c) : c \in file.columns}
  IN IF "Month" \notin cols THEN "KeyError"
     ELSE IF ~IsStringColumn(
                [i \in 1..Len(file.rows) |->
                   [c \in cols |-> file.rows[i][CHOOSE h \in file.columns : StripName(h) = c]]],
                "Month") THEN "AttributeError"
     ELSE IF "Year" \notin cols THEN "KeyError"
     ELSE IF "album_release_date" \notin cols THEN "KeyError"
     ELSE "none"

\* one row as __init__ leaves it
LoadRow(file, r) ==
  LET cols == {StripName(c) : c \in file.columns}
      named == [c \in cols |-> r[CHOOSE h \in file.columns : StripName(h) = c]]
      cleaned == [c \in cols |->
                    IF c = "Month" THEN (IF notnaText(named[c]) THEN Strip(named[c]) ELSE NaNText)
                    ELSE IF c \in {"Year", "album_release_date"} THEN ToNumeric(named[c])
                    ELSE named[c]]
      final == IF "Genera" \in cols THEN (cols \ {"Genera"}) \cup {"Genre"} ELSE cols
  IN [c \in final |-> IF c = "Genre" /\ "Genera" \in cols THEN cleaned["Genera"]
                       ELSE cleaned[c]]

\* self.df after __init__
LoadFrame(file) ==
  LET rows == [i \in 1..Len(file.rows) |-> LoadRow(file, file.rows[i])]
      cols == {StripName(c) : c \in file.columns}
  IN [columns |-> IF "Genera" \in cols THEN (cols \ {"Genera"}) \cup {"Genre"} ELSE cols,
      rows |-> rows]

(***************************************************************************)
(* Column access on a frame d = [columns, rows].                           *)
(***************************************************************************)
\* self.df[col] as a list of cells
Column(d, col) == [i \in 1..Len(d.rows) |-> d.rows[i][col]]

\* the positions of the rows of d whose cell in column col equals value:
\* self.df[self.df[col] == value]; a missing value equals nothing
RowsEqual(d, col, value, missing) ==
  Positions([i \in 1..Len(d.rows) |-> value # missing /\ d.rows[i][col] = value])

\* the positions of the rows a loop over iterrows() files under key: the
\* missing selector is a key like any other
RowsOfKey(d, col, key) ==
  Positions([i \in 1..Len(d.rows) |-> d.rows[i][col] = key])

\* collections.Counter(items): <<item, count>> in order of first appearance
CounterOf(items) ==
  LET u == Unique(items)
  IN [i \in 1..Len(u) |-> <<u[i], CountOf(items, u[i])>>]

\* the ranking with ties in the order of last appearance
most_common_last_seen(items, n) ==
  LET reversed == [i \in 1..Len(items) |-> items[Len(items) + 1 - i]]
      counter == CounterOf(reversed)
      ranked == SortBy(counter, [i \in 1..Len(counter) |-> 0 - counter[i][2]])
  IN SubSeq(ranked, 1, IF Len(ranked) < n THEN Len(ranked) ELSE n)

\* Counter.most_common(n): by count descending, ties in insertion order
most_common(items, n) ==
  LET counter == CounterOf(items)
      ranked == SortBy(counter, [i \in 1..Len(counter) |-> 0 - counter[i][2]])
  IN SubSeq(ranked, 1, IF Len(ranked) < n THEN Len(ranked) ELSE n)

\* the genre tags of the rows at positions idx whose Genre is not missing
TagsOfRows(d, idx) ==
  Flatten([k \in 1..Len(idx) |->
             IF notnaText(d.rows[idx[k]].Genre)
             THEN GenreTags(d.rows[idx[k]].Genre) ELSE <<>>])

\* the release years of the rows at positions idx, a missing year as 0
YearsOfRows_fillna(d, idx) ==
  [k \in 1..Len(idx) |->
     IF notnaNum(d.rows[idx[k]].album_release_date)
     THEN d.rows[idx[k]].album_release_date.v ELSE 0]

\* the release years of the rows at positions idx whose year is not missing
YearsOfRows(d, idx) ==
  LET dated == Select(idx, [k \in 1..Len(idx) |->
                               notnaNum(d.rows[idx[k]].album_release_date)])
  IN [k \in 1..Len(dated) |-> d.rows[dated[k]].album_release_date.v]

AllRows(d) == [i \in 1..Len(d.rows) |-> i]

MinOf(xs) == CHOOSE x \in Range(xs) : \A y \in Range(xs) : x <= y
MaxOf(xs) == CHOOSE x \in Range(xs) : \A y \in Range(xs) : x >= y

(***************************************************************************)
(* _get_member_stats                                                       *)
(***************************************************************************)
member_stats_raises(d) ==
  \/ "select_member" \notin d.columns
  \/ d.rows # <<>> /\ "Genre" \notin d.columns

\* value_counts(dropna=False): the missing selector is counted as a member
selection_counts_keepna(d) ==
  LET col == Column(d, "select_member")
  IN [m \in Range(col) |-> CountOf(col, m)]

\* self.df['select_member'].value_counts().to_dict()
selection_counts(d) ==
  LET col == Column(d, "select_member")
  IN [m \in {x \in Range(col) : notna(x)} |-> CountOf(col, m)]

\* genre_by_member: the keys are the selectors of the rows with a genre cell,
\* the missing selector included
genre_by_member(d) ==
  LET keys == {d.rows[i].select_member : i \in {j \in 1..Len(d.rows) : notnaText(d.rows[j].Genre)}}
  IN [m \in keys |-> TagsOfRows(d, RowsOfKey(d, "select_member", m))]

genre_preferences(d) ==
  LET by == genre_by_member(d)
  IN [m \in {x \in DOMAIN by : by[x] # <<>>} |->
        [top_genre |-> most_common(by[m], 1)[1],
         genre_diversity |-> Cardinality(Range(by[m]))]]

\* the loop without its notna test, the missing year taken as 0
era_by_member_fillna(d) ==
  [m \in Range(Column(d, "select_member")) |->
     YearsOfRows_fillna(d, RowsOfKey(d, "select_member", m))]

\* era_by_member: the keys are the selectors of the dated rows, the missing
\* selector included
era_by_member(d) ==
  LET keys == {d.rows[i].select_member :
                 i \in {j \in 1..Len(d.rows) : notnaNum(d.rows[j].album_release_date)}}
  IN [m \in keys |-> YearsOfRows(d, RowsOfKey(d, "select_member", m))]

era_preferences(d) ==
  LET by == era_by_member(d)
  IN [m \in {x \in DOMAIN by : by[x] # <<>>} |->
        [avg_release_year |-> Mean(by[m]),
         oldest_pick |-> MinOf(by[m]),
         newest_pick |-> MaxOf(by[m]),
         year_span |-> MaxOf(by[m]) - MinOf(by[m])]]

get_member_stats(d) ==
  [selection_counts |-> selection_counts(d),
   genre_preferences |-> genre_preferences(d),
   era_preferences |-> era_preferences(d)]

(***************************************************************************)
(* _get_genre_stats                                                        *)
(***************************************************************************)
genre_stats_raises(d) == "Genre" \notin d.columns

all_genres(d) == TagsOfRows(d, AllRows(d))

\* genre_counts.most_common(): the whole ranking
top_genres_unbounded(d) == most_common(all_genres(d), Len(all_genres(d)))

\* genre_counts.most_common(10)
top_genres(d) == most_common(all_genres(d), TopN)

monthly_diversity(d) ==
  [mo \in Range(Column(d, "Month")) |->
     Cardinality(Range(TagsOfRows(d, RowsEqual(d, "Month", mo, NaNText))))]

get_genre_stats(d) ==
  [top_genres |-> top_genres(d),
   total_unique_genres |-> Cardinality(Range(all_genres(d))),
   monthly_diversity |-> monthly_diversity(d)]

(***************************************************************************)
(* _get_decade_stats                                                       *)
(***************************************************************************)
Digit(n) == CASE n = 0 -> "0" [] n = 1 -> "1" [] n = 2 -> "2" [] n = 3 -> "3"
              [] n = 4 -> "4" [] n = 5 -> "5" [] n = 6 -> "6" [] n = 7 -> "7"
              [] n = 8 -> "8" [] n = 9 -> "9"

\* str(n) of an integer, one token per character
RECURSIVE NatDigits(_)
NatDigits(n) == IF n < 10 THEN <<Digit(n)>> ELSE Append(NatDigits(n \div 10), Digit(n % 10))

IntText(n) == IF n < 0 THEN <<"-">> \o NatDigits(0 - n) ELSE NatDigits(n)

\* the order of characters in a Python string comparison
CharOrd(c) == CASE c = "-" -> 45 [] c = "." -> 46 [] c = "0" -> 48 [] c = "1" -> 49
                [] c = "2" -> 50 [] c = "3" -> 51 [] c = "4" -> 52 [] c = "5" -> 53
                [] c = "6" -> 54 [] c = "7" -> 55 [] c = "8" -> 56 [] c = "9" -> 57
                [] c = "s" -> 115

\* a < b for two Python strings
RECURSIVE TextLess(_, _)
TextLess(a, b) ==
  IF b = <<>> THEN FALSE
  ELSE IF a = <<>> THEN TRUE
  ELSE IF Head(a) = Head(b) THEN TextLess(Tail(a), Tail(b))
  ELSE CharOrd(Head(a)) < CharOrd(Head(b))

\* round(year / 10) * 10: the nearest decade instead of the decade's start
DecadeOf_rounded(year) == ((year + 5) \div 10) * 10

\* decade = int(year // 10) * 10
DecadeOf(year) == (year \div 10) * 10

\* f"{decade}s"
DecadeLabel(decade) == Append(IntText(decade), "s")

\* the label of the bucket a dated record is counted in
BucketOf(year) == DecadeLabel(DecadeOf(year))

\* dict(sorted(decades.items())): <<label, count>> in the order of the labels
get_decade_stats(d) ==
  LET years == YearsOfRows(d, AllRows(d))
      labels == [i \in 1..Len(years) |-> BucketOf(years[i])]
      counter == CounterOf(labels)
  IN SortBy(counter, [i \in 1..Len(counter) |->
                        Cardinality({j \in 1..Len(counter) :
                                       TextLess(counter[j][1], counter[i][1])})])

(***************************************************************************)
(* _get_album_age_stats                                                    *)
(***************************************************************************)
EmptyDict == <<>>

\* Series.idxmin / idxmax: the first position of the least / greatest year
idxmin(d) ==
  LET years == YearsOfRows(d, AllRows(d))
  IN CHOOSE i \in 1..Len(d.rows) :
       /\ notnaNum(d.rows[i].album_release_date)
       /\ d.rows[i].album_release_date.v = MinOf(years)
       /\ \A j \in 1..(i - 1) : d.rows[j].album_release_date # d.rows[i].album_release_date

idxmax(d) ==
  LET years == YearsOfRows(d, AllRows(d))
  IN CHOOSE i \in 1..Len(d.rows) :
       /\ notnaNum(d.rows[i].album_release_date)
       /\ d.rows[i].album_release_date.v = MaxOf(years)
       /\ \A j \in 1..(i - 1) : d.rows[j].album_release_date # d.rows[i].album_release_date

get_album_age_stats(d) ==
  LET years == YearsOfRows(d, AllRows(d))
      ages == [i \in 1..Len(years) |-> current_year - years[i]]
  IN IF ages # <<>>
     THEN [avg_album_age |-> Mean(ages),
           median_album_age |-> Median(ages),
           oldest_album |-> d.rows[idxmin(d)],
           newest_album |-> d.rows[idxmax(d)]]
     ELSE EmptyDict

(***************************************************************************)
(* _get_monthly_patterns                                                   *)
(***************************************************************************)
monthly_patterns_raises(d) == "select_member" \notin d.columns

\* self.df.groupby('Month').size().to_dict(): missing months are dropped
albums_per_month(d) ==
  LET col == Column(d, "Month")
  IN [mo \in {x \in Range(col) : notnaText(x)} |-> CountOf(col, mo)]

\* the average with nunique(dropna=False): a missing selector counts as one
avg_selections_per_person_keepna(d) ==
  [mo \in Range(Column(d, "Month")) |->
     LET month_df == RowsEqual(d, "Month", mo, NaNText)
         unique_selectors ==
           Cardinality({d.rows[month_df[k]].select_member : k \in 1..Len(month_df)})
     IN IF unique_selectors > 0 THEN Frac(Len(month_df), unique_selectors)
        ELSE Frac(0, 1)]

\* len(month_df) / unique_selectors if unique_selectors > 0 else 0
avg_selections_per_person(d) ==
  [mo \in Range(Column(d, "Month")) |->
     LET month_df == RowsEqual(d, "Month", mo, NaNText)
         unique_selectors ==
           Cardinality({d.rows[month_df[k]].select_member : k \in 1..Len(month_df)} \ {NaN})
     IN IF unique_selectors > 0 THEN Frac(Len(month_df), unique_selectors)
        ELSE Frac(0, 1)]

get_monthly_patterns(d) ==
  [albums_per_month |-> albums_per_month(d),
   avg_selections_per_person |-> avg_selections_per_person(d)]

(***************************************************************************)
(* _get_artist_stats                                                       *)
(***************************************************************************)
artist_stats_raises(d) == "album_artist" \notin d.columns

artist_counts(d) ==
  LET col == Column(d, "album_artist")
  IN [a \in {x \in Range(col) : notna(x)} |-> CountOf(col, a)]

\* the artist statistics with artist_counts >= 1 as the filter
get_artist_stats_all(d) ==
  LET counts == artist_counts(d)
  IN [total_unique_artists |-> Cardinality(DOMAIN counts),
      repeat_artists |-> counts]

get_artist_stats(d) ==
  LET counts == artist_counts(d)
  IN [total_unique_artists |-> Cardinality(DOMAIN counts),
      repeat_artists |-> [a \in {x \in DOMAIN counts : counts[x] > 1} |-> counts[a]]]

(***************************************************************************)
(* _get_superlatives                                                       *)
(***************************************************************************)
superlatives_raises(d) ==
  \/ "select_member" \notin d.columns
  \/ d.rows # <<>> /\ "Genre" \notin d.columns

\* self.df['select_member'].unique(): the missing selector is one of them
unique_members(d) == Unique(Column(d, "select_member"))

\* self.df[self.df['select_member'] == member]: no row equals a missing selector
member_df(d, member) == RowsEqual(d, "select_member", member, NaN)

\* genre_diversity.items()
genre_diversity_items(d) ==
  LET ms == unique_members(d)
  IN [k \in 1..Len(ms) |->
        <<ms[k], Cardinality(Range(TagsOfRows(d, member_df(d, ms[k]))))>>]

\* the members with a dated pick, in the order of unique()
dated_members(d) ==
  LET ms == unique_members(d)
  IN Select(ms, [k \in 1..Len(ms) |-> YearsOfRows(d, member_df(d, ms[k])) # <<>>])

year_spans_items(d) ==
  LET ms == dated_members(d)
  IN [k \in 1..Len(ms) |->
        LET years == YearsOfRows(d, member_df(d, ms[k]))
        IN <<ms[k], MaxOf(years) - MinOf(years)>>]

avg_years_items(d) ==
  LET ms == dated_members(d)
  IN [k \in 1..Len(ms) |-> <<ms[k], Mean(YearsOfRows(d, member_df(d, ms[k])))>>]

\* max(items, key=lambda x: x[1]) on integer values
MaxItem(items) == FirstMaxBy(items, [i \in 1..Len(items) |-> items[i][2]])

\* max(items, key=lambda x: x[1]) on float values: the key of an item is
\* the number of items with a smaller value
MaxFracItem(items) ==
  FirstMaxBy(items, [i \in 1..Len(items) |->
                       Cardinality({j \in 1..Len(items) : FracLess(items[j][2], items[i][2])})])

\* min(items, key=lambda x: x[1]) on float values: the key of an item is
\* the number of items with a greater value
MinFracItem(items) ==
  FirstMaxBy(items, [i \in 1..Len(items) |->
                       Cardinality({j \in 1..Len(items) : FracLess(items[i][2], items[j][2])})])

most_eclectic_awarded(d) == genre_diversity_items(d) # <<>>

get_superlatives(d) ==
  LET gd == genre_diversity_items(d)
      ys == year_spans_items(d)
      av == avg_years_items(d)
      keys == (IF most_eclectic_awarded(d) THEN {"most_eclectic"} ELSE {})
              \cup (IF ys # <<>> THEN {"time_traveler"} ELSE {})
              \cup (IF av # <<>> THEN {"vintage_collector", "trendsetter"} ELSE {})
  IN [c \in keys |->
        CASE c = "most_eclectic" -> MaxItem(gd)
          [] c = "time_traveler" -> MaxItem(ys)
          [] c = "vintage_collector" -> MinFracItem(av)
          [] c = "trendsetter" -> MaxFracItem(av)]

(***************************************************************************)
(* _get_club_evolution                                                     *)
(***************************************************************************)
MonthNames == <<"January", "February", "March", "April", "May", "June", "July",
                "August", "September", "October", "November", "December">>

NaT == [k |-> "nat", y |-> 0, m |-> 0]
Date(y, m) == [k |-> "date", y |-> y, m |-> m]

\* the dtype of the Year column after to_numeric: integers only when no
\* cell is missing
YearDtype(d) ==
  IF \A i \in 1..Len(d.rows) : notnaNum(d.rows[i].Year) THEN "int64" ELSE "float64"

\* Series.astype(str) on one Year cell
YearText(cell, dtype) ==
  IF ~notnaNum(cell) THEN <<"nan">>
  ELSE IF dtype = "int64" THEN IntText(cell.v)
  ELSE IntText(cell.v) \o <<".", "0">>

\* self.df['Year'].astype(str) + '-' + self.df['Month'] on one row
DateText(row, dtype) ==
  IF notnaText(row.Month) THEN YearText(row.Year, dtype) \o <<"-">> \o row.Month
  ELSE NaNText

IsDigit(c) == c \in {"0", "1", "2", "3", "4", "5", "6", "7", "8", "9"}
DigitVal(c) == CHOOSE n \in 0..9 : Digit(n) = c

\* pd.to_datetime(text, format='%Y-%B', errors='coerce'): four digits, "-",
\* a full month name and nothing else
ParseDate(text) ==
  IF /\ text # NaNText
     /\ Len(text) = 6
     /\ \A i \in 1..4 : IsDigit(text[i])
     /\ text[5] = "-"
     /\ \E m \in 1..12 : MonthNames[m] = text[6]
  THEN Date(DigitVal(text[1]) * 1000 + DigitVal(text[2]) * 100
              + DigitVal(text[3]) * 10 + DigitVal(text[4]),
            CHOOSE m \in 1..12 : MonthNames[m] = text[6])
  ELSE NaT

\* self.df['date'] = ...: the frame with the date column added
WithDateColumn(d) ==
  [columns |-> d.columns \cup {"date"},
   rows |-> [i \in 1..Len(d.rows) |->
               [c \in d.columns \cup {"date"} |->
                  IF c = "date" THEN ParseDate(DateText(d.rows[i], YearDtype(d)))
                  ELSE d.rows[i][c]]]]

DateLess(a, b) ==
  /\ a.k = "date"
  /\ b.k = "nat" \/ a.y < b.y \/ (a.y = b.y /\ a.m < b.m)

\* self.df.sort_values('date'): ascending, NaT last, equal dates in row order
sort_values_date(d) ==
  [columns |-> d.columns,
   rows |-> SortBy(d.rows, [i \in 1..Len(d.rows) |->
                              Cardinality({j \in 1..Len(d.rows) :
                                             DateLess(d.rows[j].date, d.rows[i].date)})])]

\* self.df.sort_values('date', inplace=True): the frame left sorted
club_evolution_frame_sorted(d) == sort_values_date(WithDateColumn(d))

\* the frame _get_club_evolution leaves in self.df
club_evolution_frame(d) == WithDateColumn(d)

\* date.strftime('%B %Y')
DisplayDate(date) == <<MonthNames[date.m], " ">> \o IntText(date.y)

club_evolution_raises(d) ==
  /\ "select_member" \notin d.columns
  /\ \E i \in 1..Len(d.rows) : WithDateColumn(d).rows[i].date # NaT

get_club_evolution(d) ==
  LET sorted_df == sort_values_date(WithDateColumn(d))
      dates == Unique(Select(Column(sorted_df, "date"),
                             [i \in 1..Len(sorted_df.rows) |-> sorted_df.rows[i].date # NaT]))
  IN [k \in 1..Len(dates) |->
        LET month_df == RowsEqual(sorted_df, "date", dates[k], NaT)
        IN [date |-> DisplayDate(dates[k]),
            participants |-> Unique([j \in 1..Len(month_df) |->
                                       sorted_df.rows[month_df[j]].select_member]),
            num_albums |-> Len(month_df)]]

(***************************************************************************)
(* generate_wrapped_stats: the aggregators in the order of the code.  An   *)
(* aggregator that raises ends the call: nothing is returned.              *)
(***************************************************************************)
Aggregators ==
  <<"member_stats", "genre_stats", "decade_stats", "album_age_stats",
    "monthly_patterns", "artist_stats", "superlatives", "club_evolution">>

Raises(name, d) ==
  CASE name = "member_stats" -> member_stats_raises(d)
    [] name = "genre_stats" -> genre_stats_raises(d)
    [] name = "decade_stats" -> FALSE
    [] name = "album_age_stats" -> FALSE
    [] name = "monthly_patterns" -> monthly_patterns_raises(d)
    [] name = "artist_stats" -> artist_stats_raises(d)
    [] name = "superlatives" -> superlatives_raises(d)
    [] name = "club_evolution" -> club_evolution_raises(d)

ValueOf(name, d) ==
  CASE name = "member_stats" -> get_member_stats(d)
    [] name = "genre_stats" -> get_genre_stats(d)
    [] name = "decade_stats" -> get_decade_stats(d)
    [] name = "album_age_stats" -> get_album_age_stats(d)
    [] name = "monthly_patterns" -> get_monthly_patterns(d)
    [] name = "artist_stats" -> get_artist_stats(d)
    [] name = "superlatives" -> get_superlatives(d)
    [] name = "club_evolution" -> get_club_evolution(d)

\* self.df when the aggregator has run: only _get_club_evolution assigns to
\* it, and it does so before any statement of it that can raise
FrameAfter(name, d) ==
  IF name = "club_evolution" THEN club_evolution_frame(d) ELSE d

NoDoc == <<>>

\* the run of generate_wrapped_stats from aggregator k on: self.df, the
\* document returned (none when an aggregator raises), the local dict as
\* far as it was built, the aggregators that returned, the exception
RECURSIVE RunFrom(_, _, _)
RunFrom(k, d, doc) ==
  IF k > Len(Aggregators)
  THEN [df |-> d, stats |-> doc, built |-> doc, ran |-> Aggregators, err |-> "none"]
  ELSE LET name == Aggregators[k]
       IN IF Raises(name, d)
          THEN [df |-> FrameAfter(name, d), stats |-> NoDoc, built |-> doc,
                ran |-> SubSeq(Aggregators, 1, k - 1), err |-> "KeyError"]
          ELSE RunFrom(k + 1, FrameAfter(name, d), doc @@ (name :> ValueOf(name, d)))

generate_wrapped_stats(d) == RunFrom(1, d, <<>>)

(***************************************************************************)
(* __main__: the document made serialisable, and the text summary.         *)
(***************************************************************************)
\* building json_safe_stats raises when album_name is not a column and
\* some record is dated
json_raises(doc, d) ==
  doc["album_age_stats"] # EmptyDict /\ "album_name" \notin d.columns

AlbumIdentity(row) ==
  [name |-> row.album_name, artist |-> row.album_artist,
   year |-> row.album_release_date.v]

\* json_safe_stats: an empty album_age_stats gets no key
json_safe_stats(doc) ==
  LET keys == {k \in DOMAIN doc : k # "album_age_stats" \/ doc[k] # EmptyDict}
  IN [k \in keys |->
        IF k = "album_age_stats"
        THEN [avg_album_age |-> doc[k].avg_album_age,
              median_album_age |-> doc[k].median_album_age,
              oldest_album |-> AlbumIdentity(doc[k].oldest_album),
              newest_album |-> AlbumIdentity(doc[k].newest_album)]
        ELSE doc[k]]

\* f"{x:.0f}": the nearest integer, a half to the even one
RoundHalfEven(f) ==
  LET q == f[1] \div f[2]
      r2 == 2 * (f[1] - q * f[2])
  IN IF r2 < f[2] THEN q
     ELSE IF r2 > f[2] THEN q + 1
     ELSE IF q % 2 = 0 THEN q ELSE q + 1

\* the keys of selection_counts in the order of value_counts: by count
\* descending, equal counts in order of first appearance
selection_order(d) ==
  LET all == unique_members(d)
      ms == Select(all, [k \in 1..Len(all) |-> notna(all[k])])
      counts == selection_counts(d)
  IN SortBy(ms, [k \in 1..Len(ms) |-> 0 - counts[ms[k]]])

\* format_stats_for_display: the lines of the summary, one tuple per line
format_stats_for_display(doc, d) ==
  LET ms == doc["member_stats"]
      order == selection_order(d)
      top == doc["genre_stats"].top_genres
      sup == doc["superlatives"]
      dec == doc["decade_stats"]
      MemberLines(m) ==
        <<<<"member", m, ms.selection_counts[m]>>>>
        \o (IF m \in DOMAIN ms.genre_preferences
            THEN <<<<"favorite_genre", ms.genre_preferences[m].top_genre>>>> ELSE <<>>)
        \o (IF m \in DOMAIN ms.era_preferences
            THEN <<<<"average_release_year",
                     RoundHalfEven(ms.era_preferences[m].avg_release_year)>>>>
            ELSE <<>>)
  IN <<<<"MEMBER HIGHLIGHTS">>>>
     \o Flatten([k \in 1..Len(order) |-> MemberLines(order[k])])
     \o <<<<"GENRE INSIGHTS", doc["genre_stats"].total_unique_genres>>>>
     \o SubSeq(top, 1, IF Len(top) < 5 THEN Len(top) ELSE 5)
     \o <<<<"DECADE BREAKDOWN">>>> \o dec
     \o <<<<"SUPERLATIVES">>>>
     \o (IF "most_eclectic" \in DOMAIN sup
         THEN <<<<"most_eclectic", sup["most_eclectic"]>>>> ELSE <<>>)
     \o (IF "time_traveler" \in DOMAIN sup
         THEN <<<<"time_traveler", sup["time_traveler"]>>>> ELSE <<>>)
     \o (IF "vintage_collector" \in DOMAIN sup
         THEN <<<<"vintage_collector", sup["vintage_collector"][1],
                  RoundHalfEven(sup["vintage_collector"][2])>>>> ELSE <<>>)
     \o (IF "trendsetter" \in DOMAIN sup
         THEN <<<<"trendsetter", sup["trendsetter"][1],
                  RoundHalfEven(sup["trendsetter"][2])>>>> ELSE <<>>)
     \o <<<<"ARTIST LOVE", doc["artist_stats"].total_unique_artists,
            doc["artist_stats"].repeat_artists>>>>

(***************************************************************************)
(* The state machine.                                                      *)
(*   csv          the input file                                           *)
(*   pc           start, loaded, generated, json_written, done, failed     *)
(*   df           self.df                                                  *)
(*   err          the exception that ended the run, "none" if none         *)
(*   ran          the aggregators that have returned in the last call of   *)
(*                generate_wrapped_stats                                   *)
(*   stats        the document generate_wrapped_stats returned             *)
(*   ret          the last aggregator called on its own and its result     *)
(*   supLog       the first and the latest run of _get_superlatives        *)
(*   jsonFile     wrapped_stats.json: absent, empty, or the document       *)
(*   summaryFile  wrapped_summary.txt: absent, or the lines                *)
(***************************************************************************)
NoFrame == [columns |-> {}, rows |-> <<>>]
NoRet == [op |-> "none", value |-> <<>>]
Absent == [state |-> "absent", content |-> <<>>]
Empty == [state |-> "empty", content |-> <<>>]
Written(content) == [state |-> "written", content |-> content]

InitWith(files) ==
  /\ csv \in files
  /\ pc = "start"
  /\ df = NoFrame
  /\ err = "none"
  /\ ran = <<>>
  /\ stats = NoDoc
  /\ ret = NoRet
  /\ supLog = <<>>
  /\ jsonFile = Absent
  /\ summaryFile = Absent

Init == InitWith(InputFiles(MaxRows, MaxRowsSchema))

InitCalls == InitWith(InputFilesCalls(MaxRowsCalls, MaxRowsSchema))

\* the first and the latest run of _get_superlatives: its result, and the
\* columns self.df had when it ran
Logged(log, value, d) ==
  LET entry == [result |-> value, columns |-> d.columns]
  IN IF log = <<>> THEN <<entry>> ELSE <<log[1], entry>>

\* wrapped = AlbumClubWrapped(csv_path)
Load ==
  /\ pc = "start"
  /\ LET e == LoadError(csv)
     IN /\ err' = e
        /\ pc' = IF e = "none" THEN "loaded" ELSE "failed"
        /\ df' = IF e = "none" THEN LoadFrame(csv) ELSE df
  /\ UNCHANGED <<csv, ran, stats, ret, supLog, jsonFile, summaryFile>>

\* stats = wrapped.generate_wrapped_stats()
Generate ==
  /\ pc = "loaded"
  /\ LET r == generate_wrapped_stats(df)
     IN /\ df' = r.df
        /\ stats' = r.stats
        /\ ran' = r.ran
        /\ err' = r.err
        /\ pc' = IF r.err = "none" THEN "generated" ELSE "failed"
        /\ supLog' = IF "superlatives" \in Range(r.ran)
                     THEN Logged(supLog, r.built["superlatives"], df) ELSE supLog
  /\ UNCHANGED <<csv, ret, jsonFile, summaryFile>>

\* with open('wrapped_stats.json', 'w') as f: ... json.dump(json_safe_stats, f)
WriteJson ==
  /\ pc = "generated"
  /\ IF json_raises(stats, df)
     THEN /\ jsonFile' = Empty
          /\ err' = "KeyError"
          /\ pc' = "failed"
     ELSE /\ jsonFile' = Written(json_safe_stats(stats))
          /\ err' = err
          /\ pc' = "json_written"
  /\ UNCHANGED <<csv, df, ran, stats, ret, supLog, summaryFile>>

\* formatted = format_stats_for_display(stats); f.write(formatted)
WriteSummary ==
  /\ pc = "json_written"
  /\ summaryFile' = Written(format_stats_for_display(stats, df))
  /\ pc' = "done"
  /\ UNCHANGED <<csv, df, err, ran, stats, ret, supLog, jsonFile>>

\* one aggregator called on the loaded object
Call(name) ==
  /\ pc = "loaded"
  /\ df' = FrameAfter(name, df)
  /\ IF Raises(name, df)
     THEN /\ err' = "KeyError"
          /\ pc' = "failed"
          /\ UNCHANGED <<ret, supLog>>
     ELSE /\ ret' = [op |-> name, value |-> ValueOf(name, df)]
          /\ supLog' = IF name = "superlatives"
                       THEN Logged(supLog, ValueOf(name, df), df) ELSE supLog
          /\ UNCHANGED <<err, pc>>
  /\ UNCHANGED <<csv, ran, stats, jsonFile, summaryFile>>

CallMemberStats == Call("member_stats")
CallGenreStats == Call("genre_stats")
CallDecadeStats == Call("decade_stats")
CallAlbumAgeStats == Call("album_age_stats")
CallMonthlyPatterns == Call("monthly_patterns")
CallArtistStats == Call("artist_stats")
CallSuperlatives == Call("superlatives")
CallClubEvolution == Call("club_evolution")

\* the run of __main__
Next == Load \/ Generate \/ WriteJson \/ WriteSummary

Spec == Init /\ [][Next]_vars

\* the loaded object used method by method
NextCalls ==
  \/ Load
  \/ CallMemberStats
  \/ CallGenreStats
  \/ CallDecadeStats
  \/ CallAlbumAgeStats
  \/ CallMonthlyPatterns
  \/ CallArtistStats
  \/ CallSuperlatives
  \/ CallClubEvolution
  \/ Generate

SpecCalls == InitCalls /\ [][NextCalls]_vars

(***************************************************************************)
(* Properties.                                                             *)
(***************************************************************************)
\* generate_wrapped_stats has returned a document
Returned == stats # NoDoc

RECURSIVE SumOver(_, _)
SumOver(f, S) ==
  IF S = {} THEN 0
  ELSE LET x == CHOOSE y \in S : TRUE IN f[x] + SumOver(f, S \ {x})

\* the positions of the loaded records with a selector
WithSelector == {i \in 1..Len(df.rows) : df.rows[i].select_member # NaN}

\* the positions of the loaded records with a release year
Dated == {i \in 1..Len(df.rows) : df.rows[i].album_release_date.k = "num"}

\* C1: the selection counts of all members sum to the number of records
\* whose select_member is not missing.
C1_SelectionCountsSum ==
  Returned =>
    LET counts == stats["member_stats"].selection_counts
    IN SumOver(counts, DOMAIN counts) = Cardinality(WithSelector)

\* a document of a file with a record without selector beside a record
\* with one
C1_Witness ==
  /\ pc = "done"
  /\ \E i \in 1..Len(df.rows) : df.rows[i].select_member = NaN
  /\ Cardinality(WithSelector) >= 1

\* the input file with one more record at its end
WithRecord(file, full) ==
  [columns |-> file.columns,
   rows |-> Append(file.rows, [c \in file.columns |-> CellOf(full, c)])]

\* records whose album_release_date is missing or is no number
UndatedRecords ==
  {[DefaultRow EXCEPT !.select_member = m, !.album_release_date = y, !.Genre = Jazz] :
     m \in Members \cup {NaN}, y \in {NaNNum, BadNum}}

\* the identity of an album: its name, artist and release year, as far as
\* the header has the columns
Identity(row) ==
  [c \in DOMAIN row \cap {"album_name", "album_artist", "album_release_date"} |-> row[c]]

\* the album-age mean and median, the oldest and the newest album
AgeView(age) ==
  IF age = EmptyDict THEN EmptyDict
  ELSE [avg_album_age |-> age.avg_album_age,
        median_album_age |-> age.median_album_age,
        oldest_album |-> Identity(age.oldest_album),
        newest_album |-> Identity(age.newest_album)]

YearSuperlatives(sup) ==
  [c \in DOMAIN sup \cap {"time_traveler", "vintage_collector", "trendsetter"} |-> sup[c]]

\* the release-year computations read off the aggregators of a frame
ReleaseYearView(d) ==
  [era |-> era_preferences(d),
   decades |-> get_decade_stats(d),
   age |-> AgeView(get_album_age_stats(d)),
   superlatives |-> YearSuperlatives(get_superlatives(d))]

\* the release-year computations of the returned document
ReleaseYearOfDoc(doc) ==
  [era |-> doc["member_stats"].era_preferences,
   decades |-> doc["decade_stats"],
   age |-> AgeView(doc["album_age_stats"]),
   superlatives |-> YearSuperlatives(doc["superlatives"])]

\* C2: a record without release year, added at the end of the dataset,
\* changes none of the release-year computations: the members' era stats,
\* decade_stats, the album-age mean, median, oldest and newest, and the
\* time_traveler, vintage_collector and trendsetter superlatives.
C2_UndatedRecordChangesNothing ==
  pc = "generated" =>
    \A r \in UndatedRecords :
      ReleaseYearView(LoadFrame(WithRecord(csv, r))) = ReleaseYearOfDoc(stats)

\* a document with dated picks of two members, who tie
C2_Witness ==
  /\ pc = "generated"
  /\ Cardinality(DOMAIN stats["member_stats"].era_preferences) >= 2
  /\ "time_traveler" \in DOMAIN stats["superlatives"]
  /\ stats["album_age_stats"] # EmptyDict

\* C3: no member-keyed output has an entry for a missing selector:
\* selection_counts, genre_preferences, era_preferences and the candidates
\* of every superlative are keyed by selectors that are not missing.
C3_NoEntryForMissingSelector ==
  Returned =>
    /\ NaN \notin DOMAIN stats["member_stats"].selection_counts
    /\ NaN \notin DOMAIN stats["member_stats"].genre_preferences
    /\ NaN \notin DOMAIN stats["member_stats"].era_preferences
    /\ \A item \in Range(genre_diversity_items(df)) : item[1] # NaN
    /\ \A item \in Range(year_spans_items(df)) : item[1] # NaN
    /\ \A item \in Range(avg_years_items(df)) : item[1] # NaN

\* the columns the specification requires of the header
RequiredColumns == {"select_member", "album_artist", "album_name"}

\* C4: when a required column is absent from the header, the run fails with
\* a DataFormatError before any aggregator has run, and no document is
\* returned or written.
C4_MissingColumnIsFatal ==
  (pc # "start" /\ ~(RequiredColumns \subseteq csv.columns)) =>
    /\ pc = "failed"
    /\ err = "DataFormatError"
    /\ ran = <<>>
    /\ stats = NoDoc
    /\ jsonFile = Absent

\* the loaded record i has a year and the name of a month
HasValidDate(i) ==
  /\ df.rows[i].Year.k = "num"
  /\ df.rows[i].Year.v \in 1000..9999
  /\ df.rows[i].Month # NaNText
  /\ Len(df.rows[i].Month) = 1
  /\ df.rows[i].Month[1] \in Range(MonthNames)

SameDate(i, j) ==
  df.rows[i].Year = df.rows[j].Year /\ df.rows[i].Month = df.rows[j].Month

\* C5: every record with a valid year and a valid month name is counted in
\* the club_evolution entry of its own date, whatever the other records
\* hold.
C5_ValidRecordsAreCounted ==
  Returned =>
    \A i \in 1..Len(df.rows) :
      HasValidDate(i) =>
        \E k \in 1..Len(stats["club_evolution"]) :
          /\ stats["club_evolution"][k].date
               = <<df.rows[i].Month[1], " ">> \o IntText(df.rows[i].Year.v)
          /\ stats["club_evolution"][k].num_albums
               = Cardinality({j \in 1..Len(df.rows) : HasValidDate(j) /\ SameDate(i, j)})

\* C6: aggregation never changes the loaded dataset: self.df has the
\* records, columns and values it had right after loading.
C6_DatasetUnchanged ==
  (pc # "start" /\ LoadError(csv) = "none") => df = LoadFrame(csv)

\* C7: _get_superlatives run twice on the same loaded dataset, with any
\* other aggregators run before or in between, gives the same winner and
\* value for every category.
C7_SuperlativesIdempotent ==
  Len(supLog) = 2 => supLog[1].result = supLog[2].result

\* two runs with _get_club_evolution in between, on a dataset where two
\* members tie
C7_Witness ==
  /\ Len(supLog) = 2
  /\ "date" \notin supLog[1].columns
  /\ "date" \in supLog[2].columns
  /\ "most_eclectic" \in DOMAIN supLog[2].result
  /\ Len(genre_diversity_items(df)) >= 2
  /\ genre_diversity_items(df)[1][2] = genre_diversity_items(df)[2][2]

\* C8: top_genres has at most 10 entries and at most total_unique_genres
\* entries, and every genre it lists occurs at least once.
C8_TopGenresBounded ==
  Returned =>
    LET top == stats["genre_stats"].top_genres
    IN /\ Len(top) <= 10
       /\ Len(top) <= stats["genre_stats"].total_unique_genres
       /\ \A k \in 1..Len(top) :
            /\ top[k][2] >= 1
            /\ \E i \in 1..Len(df.rows) :
                 /\ df.rows[i].Genre # NaNText
                 /\ top[k][1] \in Range(GenreTags(df.rows[i].Genre))

\* a document of a dataset with more than 10 distinct genres
C8_Witness ==
  /\ Returned
  /\ stats["genre_stats"].total_unique_genres > 10
  /\ Len(stats["genre_stats"].top_genres) = 10

\* some member with a selector has a dated pick
SomeDatedPick == \E i \in Dated : df.rows[i].select_member # NaN

\* some member with a selector has a genre tag that is not empty
SomeGenre ==
  \E i \in WithSelector :
    /\ df.rows[i].Genre # NaNText
    /\ \E tag \in Range(GenreTags(df.rows[i].Genre)) : tag # <<>>

LabelOfYear(y) == Append(IntText((y \div 10) * 10), "s")

\* C10: every dated record is counted in exactly one decade bucket, the one
\* labelled floor(releaseYear / 10) * 10 followed by "s" (1977 in "1970s"),
\* and the counts sum to the number of dated records.
C10_DecadeBuckets ==
  Returned =>
    LET dec == stats["decade_stats"]
    IN /\ \A i \in Dated :
            LET y == df.rows[i].album_release_date.v
                own == {k \in 1..Len(dec) : dec[k][1] = LabelOfYear(y)}
            IN /\ Cardinality(own) = 1
               /\ \A k \in own :
                    dec[k][2] = Cardinality({j \in Dated :
                      LabelOfYear(df.rows[j].album_release_date.v) = LabelOfYear(y)})
               /\ y = 1977 => \E k \in own : dec[k][1] = <<"1", "9", "7", "0", "s">>
       /\ SumSeq([k \in 1..Len(dec) |-> dec[k][2]]) = Cardinality(Dated)

\* a document of a dataset with 1977 and 1975, counted in one bucket
C10_Witness ==
  /\ Returned
  /\ \E i \in Dated : df.rows[i].album_release_date.v = 1977
  /\ \E i \in Dated : df.rows[i].album_release_date.v = 1975
  /\ stats["decade_stats"] = <<<< <<"1", "9", "7", "0", "s">>, 2 >>>>

\* the positions of the loaded records of month mo
InMonth(mo) == {j \in 1..Len(df.rows) : df.rows[j].Month = mo}

\* the selectors, none missing, of the loaded records of month mo
SelectorsIn(mo) == {df.rows[j].select_member : j \in InMonth(mo)} \ {NaN}

\* C11: for every month label of the dataset, avg_selections_per_person is
\* the number of records of the month divided by the number of distinct
\* selectors, none missing, among them, and 0 when there is no selector;
\* 4 records of 2 selectors give 2.0.
C11_AvgSelectionsPerPerson ==
  Returned =>
    LET avg == stats["monthly_patterns"].avg_selections_per_person
    IN \A i \in 1..Len(df.rows) :
         LET mo == df.rows[i].Month
             n == Cardinality(InMonth(mo))
             k == Cardinality(SelectorsIn(mo))
         IN mo # NaNText =>
              /\ mo \in DOMAIN avg
              /\ k = 0 => avg[mo] = <<0, 1>>
              /\ k > 0 => /\ avg[mo][2] > 0
                          /\ avg[mo][1] * k = n * avg[mo][2]
              /\ (n = 4 /\ k = 2) => avg[mo] = <<2, 1>>

\* a document of the meeting with four records of two selectors
C11_Witness ==
  /\ Returned
  /\ Cardinality(InMonth(<<"March">>)) = 4
  /\ Cardinality(SelectorsIn(<<"March">>)) = 2
  /\ stats["monthly_patterns"].avg_selections_per_person[<<"March">>] = <<2, 1>>

\* the eight categories of the statistics document
CategoryKeys == Range(Aggregators)

\* C12: the document returned by generate_wrapped_stats and the document
\* written to wrapped_stats.json both have exactly the eight category keys;
\* album_age_stats is present, with an empty value, when no record is dated.
C12_EightCategories ==
  /\ Returned => DOMAIN stats = CategoryKeys
  /\ jsonFile.state = "written" => DOMAIN jsonFile.content = CategoryKeys

\* C13: on the three records of the scenario the document has
\* selection_counts {Sam: 2, Dana: 1}, total_unique_genres 2, decade_stats
\* {1970s: 1, 1990s: 1, 2000s: 1} and repeat_artists {A: 2}.
C13_Scenario ==
  (Returned /\ csv = FileOf(AllColumns, Scenario)) =>
    /\ stats["member_stats"].selection_counts = [m \in {"Sam", "Dana"} |-> IF m = "Sam" THEN 2 ELSE 1]
    /\ stats["genre_stats"].total_unique_genres = 2
    /\ stats["decade_stats"] = << << <<"1", "9", "7", "0", "s">>, 1 >>,
                                  << <<"1", "9", "9", "0", "s">>, 1 >>,
                                  << <<"2", "0", "0", "0", "s">>, 1 >> >>
    /\ stats["artist_stats"].repeat_artists = [a \in {"A"} |-> 2]

\* the run of __main__ on the scenario, to its end
C13_Witness ==
  /\ pc = "done"
  /\ csv = FileOf(AllColumns, Scenario)
  /\ Len(df.rows) = 3
  /\ stats["artist_stats"].total_unique_artists = 2

\* the position in decade_stats of the bucket of year y
BucketPosition(dec, y) == CHOOSE k \in 1..Len(dec) : dec[k][1] = LabelOfYear(y)

\* C14: decade_stats lists its buckets in ascending order of the decade's
\* number: the bucket of an earlier decade stands before the bucket of a
\* later one, also for years below 1000.
C14_DecadesAscending ==
  Returned =>
    \A i, j \in Dated :
      LET yi == df.rows[i].album_release_date.v
          yj == df.rows[j].album_release_date.v
      IN (yi \div 10) < (yj \div 10) =>
           BucketPosition(stats["decade_stats"], yi) < BucketPosition(stats["decade_stats"], yj)

\* the positions of the loaded records whose genre field holds the tag
RecordsTagged(tag) ==
  {i \in 1..Len(df.rows) :
     /\ df.rows[i].Genre # NaNText
     /\ tag \in Range(GenreTags(df.rows[i].Genre))}

\* C15: a record contributes its genres as a set of trimmed tags that are
\* not empty: the count of a genre is the number of records whose genre
\* field holds the tag, and the empty string is never a counted genre.
C15_GenresCountedAsSets ==
  Returned =>
    LET top == stats["genre_stats"].top_genres
    IN \A k \in 1..Len(top) :
         /\ top[k][1] # <<>>
         /\ top[k][2] = Cardinality(RecordsTagged(top[k][1]))

\* the first position of a tag in a list of tags
FirstSeen(flat, tag) == CHOOSE i \in 1..Len(flat) : flat[i] = tag /\ \A j \in 1..(i - 1) : flat[j] # tag

\* tag a ranks before tag b in the list flat: more occurrences, or as many
\* and seen first
RanksBefore(flat, a, b) ==
  \/ CountOf(flat, a) > CountOf(flat, b)
  \/ CountOf(flat, a) = CountOf(flat, b) /\ FirstSeen(flat, a) < FirstSeen(flat, b)

\* top is the first entries, at most n, of the ranking of the list flat
IsRankingPrefix(top, flat, n) ==
  /\ Len(top) = IF Cardinality(Range(flat)) < n THEN Cardinality(Range(flat)) ELSE n
  /\ \A k \in 1..Len(top) :
       /\ top[k][1] \in Range(flat)
       /\ top[k][2] = CountOf(flat, top[k][1])
       /\ \A l \in (k + 1)..Len(top) : RanksBefore(flat, top[k][1], top[l][1])
       /\ \A tag \in Range(flat) \ {top[l][1] : l \in 1..Len(top)} :
            RanksBefore(flat, top[k][1], tag)

\* C16: genres rank by count descending, ties by first appearance in the
\* flattened genre list: top_genres is the first 10 entries of the ranking
\* over all records, a member's top_genre the first entry of the ranking
\* over the member's own picks.
C16_GenreRanking ==
  Returned =>
    /\ IsRankingPrefix(stats["genre_stats"].top_genres, all_genres(df), 10)
    /\ \A m \in DOMAIN stats["member_stats"].genre_preferences :
         IsRankingPrefix(<<stats["member_stats"].genre_preferences[m].top_genre>>,
                         genre_by_member(df)[m], 1)

\* a document where genres tie, overall and for a member, and the genre
\* seen first is not the first in the alphabet
C16_Witness ==
  /\ Returned
  /\ Len(stats["genre_stats"].top_genres) >= 2
  /\ stats["genre_stats"].top_genres[1] = << <<"Rock">>, 1 >>
  /\ stats["genre_stats"].top_genres[2][2] = 1
  /\ <<"Jazz">> \in Range(all_genres(df))
  /\ "Sam" \in DOMAIN stats["member_stats"].genre_preferences
  /\ stats["member_stats"].genre_preferences["Sam"].top_genre = << <<"Rock">>, 1 >>
  /\ stats["member_stats"].genre_preferences["Sam"].genre_diversity >= 2

\* the positions of the loaded records whose composite date parsed
Parsed == {i \in 1..Len(df.rows) : df.rows[i].date # NaT}

\* the positions of the records that meet on the date of record i
OnDateOf(i) == {j \in Parsed : df.rows[j].date = df.rows[i].date}

\* the positions in club_evolution of the entries of the date of record i
EntriesOf(ev, i) == {k \in 1..Len(ev) : ev[k].date = DisplayDate(df.rows[i].date)}

\* C17: club_evolution has one entry per distinct composite date, in
\* strictly ascending chronological order; num_albums is the number of
\* records of the date, participants holds each selector of those records
\* once, and the num_albums sum to the number of records whose date parsed.
C17_ClubEvolutionEntries ==
  Returned =>
    LET ev == stats["club_evolution"]
    IN /\ \A k \in 1..Len(ev) : \E i \in Parsed : k \in EntriesOf(ev, i)
       /\ \A i \in Parsed :
            /\ Cardinality(EntriesOf(ev, i)) = 1
            /\ \A k \in EntriesOf(ev, i) :
                 /\ ev[k].num_albums = Cardinality(OnDateOf(i))
                 /\ Range(ev[k].participants)
                      = {df.rows[j].select_member : j \in OnDateOf(i)} \ {NaN}
                 /\ Cardinality(Range(ev[k].participants)) = Len(ev[k].participants)
            /\ \A j \in Parsed :
                 DateLess(df.rows[i].date, df.rows[j].date) =>
                   \A k \in EntriesOf(ev, i), l \in EntriesOf(ev, j) : k < l
       /\ SumSeq([k \in 1..Len(ev) |-> ev[k].num_albums]) = Cardinality(Parsed)

\* C18: the two computations of genre diversity agree: when most_eclectic
\* names member M with count c, genre_preferences[M].genre_diversity is c
\* (when M has an entry), and no entry of genre_preferences has a
\* genre_diversity greater than c.
C18_GenreDiversityAgrees ==
  (Returned /\ "most_eclectic" \in DOMAIN stats["superlatives"]) =>
    LET M == stats["superlatives"]["most_eclectic"][1]
        c == stats["superlatives"]["most_eclectic"][2]
        prefs == stats["member_stats"].genre_preferences
    IN /\ M \in DOMAIN prefs => prefs[M].genre_diversity = c
       /\ \A m \in DOMAIN prefs : prefs[m].genre_diversity <= c

====
